---- MODULE Spec2Model ----
(***************************************************************************)
(* Backend of the image feed: the createPost generation task, the          *)
(* Leonardo polling loop, deletePost and likePost / unlikePost, acting on  *)
(* the Prisma record store.  Every await of a resolver is a step of its    *)
(* own, so that resolvers and background tasks interleave as they do on    *)
(* the Node event loop.                                                    *)
(***************************************************************************)
EXTENDS Integers, Sequences, FiniteSets, TLC

\* ---------------------------------------------------------------- bounds
\* Number of posts ever created in one behaviour (ids are never reused).
MaxPosts == 1
\* Number of posts in the store a feed view pages through.
MaxFeedPosts == 5
\* The page size a feed view asks for (useFeed's limit).
FeedLimit == 2
\* GET_FEED requests a feed view has outstanding at once.
MaxFetches == 2
\* Length of the window beyond which the view asks for no more pages.
MaxWindow == 6
\* Most loadMore calls of one traversal whose lengths are compared.
MaxLoads == 2
\* Most handleClick calls of the LikeButton awaiting their mutation at once.
MaxPending == 2
\* Most postLikeUpdated events sent to the LikeButton, when it is not
\* clicked and when it is.
MaxEvents == 3
MaxButtonEvents == 1
\* Most createPost calls made through one useCreatePost instance.
MaxJobs == 3

\* ------------------------------------------------------ program constants
\* pollForCompletion(generationId, maxAttempts = 30)
maxAttempts == 30
\* validationRules.prompt
minLength == 3
maxLength == 1000
\* feed: take = Math.min(limit, 50)
maxTake == 50

Users == {"u1", "u2"}
\* Context.userId of an unauthenticated request
NoUser == "null"
Null == "null"
Undefined == "undefined"

\* ------------------------------------------------------------------ prompts
\* The string of n characters c.
RECURSIVE Rep(_, _)
Rep(c, n) ==
  IF n = 0 THEN <<>>
  ELSE IF n % 2 = 0 THEN LET half == Rep(c, n \div 2) IN half \o half
  ELSE Append(Rep(c, n - 1), c)

RECURSIVE trimStart(_)
trimStart(s) ==
  IF s = <<>> \/ Head(s) # " " THEN s ELSE trimStart(Tail(s))

RECURSIVE trimEnd(_)
trimEnd(s) ==
  IF s = <<>> \/ s[Len(s)] # " " THEN s ELSE trimEnd(SubSeq(s, 1, Len(s) - 1))

\* String.prototype.trim
trim(s) == trimEnd(trimStart(s))

PromptMessage == "Prompt must be between 3 and 1000 characters"

\* Mutation of validatePrompt: the length test is made on the raw prompt.
validatePromptUntrimmed(prompt) ==
  IF Len(prompt) < minLength \/ Len(prompt) > maxLength
  THEN PromptMessage
  ELSE Null

validatePrompt(prompt) ==
  LET trimmed == trim(prompt)
  IN  IF Len(trimmed) < minLength \/ Len(trimmed) > maxLength
      THEN PromptMessage
      ELSE Null

\* The prompts submitted: around both limits, with and without padding.
Prompts ==
  { <<>>,
    Rep(" ", 4),
    Rep("a", 2),
    <<" ">> \o Rep("a", 2) \o <<" ">>,
    Rep("a", 3),
    <<" ", " ">> \o Rep("a", 3) \o <<" ">>,
    <<"a", " ", "b">>,
    Rep("a", 1000),
    <<" ">> \o Rep("a", 1000) \o <<" ">>,
    Rep("a", 1001) }

\* ---------------------------------------------------------------- provider
GenerationId == "gen"
ImageUrls == {Undefined, "", "url"}
\* JavaScript truthiness of result.imageUrl
Truthy(x) == x \notin {Undefined, ""}

\* What getGenerationResult can give back: a throw (response not ok, network
\* error) or {status, imageUrl}.
PollAnswers ==
  {[throws |-> TRUE, status |-> "", imageUrl |-> Undefined]} \cup
  [throws : {FALSE}, status : {"PENDING", "COMPLETE", "FAILED"}, imageUrl : ImageUrls]

VARIABLES
  posts,       \* prisma.post: id -> record, for the ids that exist
  nextId,      \* the id the next created post gets
  likes,       \* prisma.like: the set of like records {id, userId, postId}
  task,        \* the background task of each created post
  session,     \* the resolver call each client has in flight
  published,   \* what was published on pubsub, in order
  response,    \* what the step just taken handed to a caller, if anything
  feedData,    \* a feed view's cached Query.feed (useFeed's data.feed)
  fetching,    \* that view's GET_FEED requests that have not settled
  button,      \* a signed-in viewer's LikeButton of post 1: props, state, clicks
  subscription,\* the postLikeUpdated events on their way to that button
  hook         \* a useCreatePost instance: its state, intervals and timers

vars == <<posts, nextId, likes, task, session, published, response,
          feedData, fetching, button, subscription, hook>>

PostIds == 1..MaxPosts

\* Connections to the server; each has at most one resolver call in flight.
Clients == {"c1"}
\* The connections when several users act at once.
Connections == {"c1", "c2"}

\* likeId is the id of the like record unlikePost found (its local `like`).
Idle == [op |-> "idle", userId |-> NoUser, postId |-> 0, pc |-> "", likeId |-> 0]

\* Values handed to callers: null, a boolean, or a post as the resolver
\* returns it.
NullValue == [kind |-> "null"]
BooleanValue(b) == [kind |-> "Boolean", is |-> b]
PostValue(post) ==
  [kind |-> "Post", userId |-> post.userId, status |-> post.status,
   imageUrl |-> post.imageUrl, likesCount |-> post.likesCount]

NoResponse == [op |-> "", error |-> Null, value |-> NullValue]

\* useQuery's data before the first result: undefined.
NoData == [kind |-> "undefined"]

\* A step of a background task or a resolver's intermediate await: nothing
\* is handed to any caller.
Silent == response' = NoResponse

\* A handleClick call that is not running.
NoCall ==
  [pc |-> "", wasLiked |-> FALSE, prevCount |-> 0, shown |-> <<FALSE, 0>>,
   superseded |-> FALSE, data |-> NullValue]

\* LikeButton as mounted with the props likesCount and isLiked:
\* useState(isLiked), useState(likesCount), no click under way, no event
\* seen.
LikeButton(likesCount, isLiked) ==
  [likesCount |-> likesCount, isLiked |-> isLiked,
   optimisticLiked |-> isLiked, displayCount |-> likesCount,
   calls |-> [h \in 1..MaxPending |-> NoCall], observed |-> 0]

\* The subscription with nothing sent yet: the number of the next event,
\* and the events sent and not yet received.
NoEvents == [next |-> 1, inflight |-> {}]

\* A createPost call of the hook that was not made.
NoJob == [pc |-> "", timer |-> FALSE, query |-> FALSE]

\* useCreatePost as mounted: useState(false), useState(null), no call made.
useCreatePost ==
  [isGenerating |-> FALSE, generatingPost |-> NullValue,
   jobs |-> [j \in 1..MaxJobs |-> NoJob]]

Init ==
  /\ posts = <<>>
  /\ nextId = 1
  /\ likes = {}
  /\ task = <<>>
  /\ session = [c \in Clients |-> Idle]
  /\ published = <<>>
  /\ response = NoResponse
  /\ feedData = NoData
  /\ fetching = <<>>
  /\ button = LikeButton(0, FALSE)
  /\ subscription = NoEvents
  /\ hook = useCreatePost

\* The shape of the state: the Post and Like tables, the async block of each
\* created post, the calls in flight.
TypeOK ==
  /\ nextId \in Nat \ {0}
  /\ DOMAIN posts \subseteq 1..(nextId - 1)
  /\ \A id \in DOMAIN posts :
       /\ posts[id].userId \in Users
       /\ posts[id].status \in {"generating", "completed", "failed"}
       /\ posts[id].imageUrl \in {"", "url"}
       /\ posts[id].leonardoGenerationId \in {Null, GenerationId}
       /\ posts[id].likesCount \in Int
       /\ posts[id].createdAt \in 1..id
  /\ \A l \in likes : l.id \in Nat \ {0} /\ l.userId \in Users /\ l.postId \in DOMAIN posts
  /\ DOMAIN task = 1..(nextId - 1)
  /\ \A id \in DOMAIN task :
       /\ task[id].pc \in {"createGeneration", "updateGenerationId", "poll",
                           "updateCompleted", "catch", "done", "unhandledRejection"}
       /\ task[id].attempts \in 0..(maxAttempts - 1)
  /\ DOMAIN session \in {Clients, Connections}
  /\ published = <<>> \/ published \in Seq([topic : STRING, postId : PostIds])
  /\ feedData = NoData \/ feedData.hasMore \in BOOLEAN
  /\ \A i \in DOMAIN fetching : fetching[i].limit = FeedLimit
  /\ button.optimisticLiked \in BOOLEAN /\ button.isLiked \in BOOLEAN
  /\ button.displayCount \in Int /\ button.likesCount \in Int
  /\ \A h \in DOMAIN button.calls :
       button.calls[h].pc \in {"", "request", "response"}
  /\ subscription.next \in 1..(MaxEvents + 1)
  /\ \A event \in subscription.inflight : event.version < subscription.next
  /\ hook.isGenerating \in BOOLEAN
  /\ \A j \in DOMAIN hook.jobs :
       /\ hook.jobs[j].pc \in {"", "mutation", "polling", "cleared", "thrown"}
       /\ hook.jobs[j].timer => hook.jobs[j].pc \in {"polling", "cleared"}

Exists(id) == id \in DOMAIN posts

\* A resolver throws: the caller gets the error.
Throws(op, message) ==
  response' = [op |-> op, error |-> message, value |-> NullValue]

\* A resolver returns a value.
Returns(op, value) ==
  response' = [op |-> op, error |-> Null, value |-> value]

\* prisma.post.findUnique({where: {id}}) on the table ps, as a resolver
\* returns it: the post or null.
FindUnique(ps, id) == IF id \in DOMAIN ps THEN PostValue(ps[id]) ELSE NullValue

\* ------------------------------------------------------------- createPost
\* The createdAt of the newest stored post, 0 when there is none.
Latest ==
  IF DOMAIN posts = {} THEN 0
  ELSE CHOOSE t \in {posts[id].createdAt : id \in DOMAIN posts} :
         \A id \in DOMAIN posts : posts[id].createdAt <= t

\* @default(now()) of Post.createdAt, in milliseconds: what the clock can
\* read when a post is created, the millisecond of the newest post or the
\* next one.
now == {Latest, Latest + 1} \ {0}

\* Mutation of NewPost: the record is created with a generation id before
\* the provider was asked for one.
NewPostWithGenerationId(userId, createdAt) ==
  [userId |-> userId, imageUrl |-> "", status |-> "generating",
   leonardoGenerationId |-> "gen", likesCount |-> 0, createdAt |-> createdAt]

\* The record prisma.post.create makes (likesCount defaults to 0,
\* leonardoGenerationId to null, createdAt to now()).
NewPost(userId, createdAt) ==
  [userId |-> userId, imageUrl |-> "", status |-> "generating",
   leonardoGenerationId |-> Null, likesCount |-> 0, createdAt |-> createdAt]

\* The background task as createPost leaves it: leonardo.createGeneration
\* has been called and is awaited.
NewTask == [pc |-> "createGeneration", attempts |-> 0, imageUrl |-> Undefined,
            cause |-> ""]

\* Mutation.createPost, up to its return; the async block runs on as the
\* task of the new post.
CreatePost(userId, prompt) ==
  /\ UNCHANGED <<likes, session, published, feedData, fetching,
               button, subscription, hook>>
  /\ IF userId = NoUser
     THEN /\ Throws("createPost", "Authentication required")
          /\ UNCHANGED <<posts, nextId, task>>
     ELSE IF validatePrompt(prompt) # Null
     THEN /\ Throws("createPost", validatePrompt(prompt))
          /\ UNCHANGED <<posts, nextId, task>>
     ELSE /\ nextId <= MaxPosts
          /\ \E createdAt \in now :
               posts' = [id \in DOMAIN posts \cup {nextId} |->
                           IF id = nextId THEN NewPost(userId, createdAt) ELSE posts[id]]
          /\ task' = [id \in DOMAIN task \cup {nextId} |->
                         IF id = nextId THEN NewTask ELSE task[id]]
          /\ nextId' = nextId + 1
          /\ Returns("createPost", PostValue(posts'[nextId]))

AtPc(id, pc) == id \in DOMAIN task /\ task[id].pc = pc

\* The catch block is entered: prisma.post.update({status: "failed"}) is
\* called and awaited.  pollForCompletion's counter i is gone with its frame.
Caught(t, cause) == [t EXCEPT !.pc = "catch", !.cause = cause, !.attempts = 0]

\* leonardo.createGeneration settles: the generation id, or a throw.
CreateGenerationSettles(id) ==
  /\ AtPc(id, "createGeneration")
  /\ \E ok \in BOOLEAN :
       task' = [task EXCEPT ![id] =
                  IF ok THEN [@ EXCEPT !.pc = "updateGenerationId"]
                  ELSE Caught(@, "generate")]
  /\ Silent
  /\ UNCHANGED <<posts, nextId, likes, session, published, feedData, fetching,
               button, subscription, hook>>

\* prisma.post.update({leonardoGenerationId}) settles; it rejects when the
\* record is gone.  On success pollForCompletion starts its first poll.
UpdateGenerationId(id) ==
  /\ AtPc(id, "updateGenerationId")
  /\ IF Exists(id)
     THEN /\ posts' = [posts EXCEPT ![id].leonardoGenerationId = GenerationId]
          /\ task' = [task EXCEPT ![id].pc = "poll"]
     ELSE /\ task' = [task EXCEPT ![id] = Caught(@, "store")]
          /\ UNCHANGED posts
  /\ Silent
  /\ UNCHANGED <<nextId, likes, session, published, feedData, fetching,
               button, subscription, hook>>

\* pollForCompletion returns the image url to the async block, which calls
\* prisma.post.update({imageUrl, status: "completed"}).
Polled(t, imageUrl) ==
  [t EXCEPT !.pc = "updateCompleted", !.imageUrl = imageUrl, !.attempts = 0]

\* Mutation of PollStep: a COMPLETE answer ends the loop whether or not it
\* carries an image.
PollStepNoImageTest(t, answer) ==
  IF answer.throws THEN Caught(t, "poll")
  ELSE IF answer.status = "COMPLETE" THEN Polled(t, answer.imageUrl)
  ELSE IF answer.status = "FAILED" THEN Caught(t, "failed")
  ELSE IF t.attempts + 1 < maxAttempts THEN [t EXCEPT !.attempts = @ + 1]
  ELSE Caught(t, "timeout")

\* One iteration of pollForCompletion's loop, from the answer of
\* getGenerationResult to the next await: the task state it leads to.
\* attempts is the loop's i.
PollStep(t, answer) ==
  IF answer.throws THEN Caught(t, "poll")
  ELSE IF answer.status = "COMPLETE" /\ Truthy(answer.imageUrl)
  THEN Polled(t, answer.imageUrl)
  ELSE IF answer.status = "FAILED" THEN Caught(t, "failed")
  \* setTimeout(2000), then i++ and the loop test
  ELSE IF t.attempts + 1 < maxAttempts THEN [t EXCEPT !.attempts = @ + 1]
  ELSE Caught(t, "timeout")

\* getGenerationResult settles inside pollForCompletion.
PollSettles(id) ==
  /\ AtPc(id, "poll")
  /\ \E answer \in PollAnswers :
       task' = [task EXCEPT ![id] = PollStep(@, answer)]
  /\ Silent
  /\ UNCHANGED <<posts, nextId, likes, session, published, feedData, fetching,
               button, subscription, hook>>

\* Mutation of UpdateCompleted: a statement after the update, still inside the
\* try block, throws, so the catch block runs after the post was completed.
UpdateCompletedThenThrows(id) ==
  /\ AtPc(id, "updateCompleted")
  /\ IF Exists(id)
     THEN posts' = [posts EXCEPT ![id].imageUrl = task[id].imageUrl,
                                 ![id].status = "completed"]
     ELSE UNCHANGED posts
  /\ task' = [task EXCEPT ![id] = Caught(@, "store")]
  /\ Silent
  /\ UNCHANGED <<nextId, likes, session, published, feedData, fetching,
               button, subscription, hook>>

\* prisma.post.update({imageUrl, status: "completed"}) settles.
UpdateCompleted(id) ==
  /\ AtPc(id, "updateCompleted")
  /\ IF Exists(id)
     THEN /\ posts' = [posts EXCEPT ![id].imageUrl = task[id].imageUrl,
                                    ![id].status = "completed"]
          /\ task' = [task EXCEPT ![id].pc = "done"]
     ELSE /\ task' = [task EXCEPT ![id] = Caught(@, "store")]
          /\ UNCHANGED posts
  /\ Silent
  /\ UNCHANGED <<nextId, likes, session, published, feedData, fetching,
               button, subscription, hook>>

\* The catch block's prisma.post.update({status: "failed"}) settles.  It is
\* awaited inside the catch block, so its rejection leaves the async block
\* as an unhandled rejection.
UpdateFailed(id) ==
  /\ AtPc(id, "catch")
  /\ IF Exists(id)
     THEN /\ posts' = [posts EXCEPT ![id].status = "failed"]
          /\ task' = [task EXCEPT ![id].pc = "done"]
     ELSE /\ task' = [task EXCEPT ![id].pc = "unhandledRejection"]
          /\ UNCHANGED posts
  /\ Silent
  /\ UNCHANGED <<nextId, likes, session, published, feedData, fetching,
               button, subscription, hook>>

\* ------------------------------------------------------------- deletePost
InFlight(c, op, pc) == session[c].op = op /\ session[c].pc = pc

Start(c, op, userId, postId, pc) ==
  session' = [session EXCEPT ![c] =
                [op |-> op, userId |-> userId, postId |-> postId, pc |-> pc,
                 likeId |-> 0]]

Goto(c, pc) == session' = [session EXCEPT ![c].pc = pc]

Finish(c) == session' = [session EXCEPT ![c] = Idle]

RecordNotFound == "Record to update or delete does not exist"

\* Mutation of DeletePostCall: the post's userId is not compared with the
\* caller's.
DeletePostCallAnyUser(c, userId, id) ==
  /\ session[c] = Idle
  /\ UNCHANGED <<posts, nextId, likes, task, published, feedData, fetching,
               button, subscription, hook>>
  /\ IF userId = NoUser
     THEN Throws("deletePost", "Authentication required") /\ UNCHANGED session
     ELSE IF ~Exists(id)
     THEN Throws("deletePost", "Post not found or unauthorized") /\ UNCHANGED session
     ELSE Start(c, "deletePost", userId, id, "post.delete") /\ Silent

\* Mutation.deletePost up to prisma.post.delete being called: the
\* authentication test, findUnique and the ownership test.
DeletePostCall(c, userId, id) ==
  /\ session[c] = Idle
  /\ UNCHANGED <<posts, nextId, likes, task, published, feedData, fetching,
               button, subscription, hook>>
  /\ IF userId = NoUser
     THEN Throws("deletePost", "Authentication required") /\ UNCHANGED session
     ELSE IF ~Exists(id) \/ posts[id].userId # userId
     THEN Throws("deletePost", "Post not found or unauthorized") /\ UNCHANGED session
     ELSE Start(c, "deletePost", userId, id, "post.delete") /\ Silent

\* onDelete: Cascade of Like.post
CascadeLikes(id) == {l \in likes : l.postId # id}

\* prisma.post.delete settles.
DeletePostDelete(c) ==
  /\ InFlight(c, "deletePost", "post.delete")
  /\ LET id == session[c].postId
     IN  IF Exists(id)
         THEN /\ posts' = [i \in DOMAIN posts \ {id} |-> posts[i]]
              /\ likes' = CascadeLikes(id)
              /\ Returns("deletePost", BooleanValue(TRUE))
         ELSE /\ Throws("deletePost", RecordNotFound)
              /\ UNCHANGED <<posts, likes>>
  /\ Finish(c)
  /\ UNCHANGED <<nextId, task, published, feedData, fetching,
               button, subscription, hook>>

\* --------------------------------------------------------------- likePost
\* The like records of one (userId, postId) pair in the table lk.
LikesOf(lk, userId, postId) == {l \in lk : l.userId = userId /\ l.postId = postId}

\* The ids of like records that are stored or held by a call in flight.
LikeIdsInUse == {l.id : l \in likes} \cup {session[c].likeId : c \in DOMAIN session}

\* @default(uuid()): an id no stored record and no call in flight carries.
\* Ids are only ever compared for equality, so the least unused one stands
\* for the fresh uuid.
RECURSIVE FreshFrom(_, _)
FreshFrom(n, used) == IF n \in used THEN FreshFrom(n + 1, used) ELSE n

uuid == FreshFrom(1, LikeIdsInUse)

\* Mutation of LikeCreate: the store does not enforce @@unique([userId,
\* postId]), so a like is created whenever the post exists.
LikeCreateNoUnique(c) ==
  /\ InFlight(c, "likePost", "like.create")
  /\ LET userId == session[c].userId
         postId == session[c].postId
     IN  IF ~Exists(postId)
         THEN Goto(c, "catch.findUnique") /\ UNCHANGED likes
         ELSE /\ likes' = likes \cup {[id |-> uuid, userId |-> userId, postId |-> postId]}
              /\ Goto(c, "post.update")
  /\ Silent
  /\ UNCHANGED <<posts, nextId, task, published, feedData, fetching,
               button, subscription, hook>>

\* Mutation.likePost up to prisma.like.create being called.
LikePostCall(c, userId, postId) ==
  /\ session[c] = Idle
  /\ UNCHANGED <<posts, nextId, likes, task, published, feedData, fetching,
               button, subscription, hook>>
  /\ IF userId = NoUser
     THEN Throws("likePost", "Authentication required") /\ UNCHANGED session
     ELSE IF ~Exists(postId)
     THEN Throws("likePost", "Post not found") /\ UNCHANGED session
     ELSE Start(c, "likePost", userId, postId, "like.create") /\ Silent

\* prisma.like.create settles: it rejects on the unique constraint, or on
\* the foreign key when the post is gone, and the catch block then calls
\* findUnique.
LikeCreate(c) ==
  /\ InFlight(c, "likePost", "like.create")
  /\ LET userId == session[c].userId
         postId == session[c].postId
     IN  IF LikesOf(likes, userId, postId) # {} \/ ~Exists(postId)
         THEN Goto(c, "catch.findUnique") /\ UNCHANGED likes
         ELSE /\ likes' = likes \cup {[id |-> uuid, userId |-> userId, postId |-> postId]}
              /\ Goto(c, "post.update")
  /\ Silent
  /\ UNCHANGED <<posts, nextId, task, published, feedData, fetching,
               button, subscription, hook>>

\* Mutation of LikeIncrement: the counter is written from the post read at
\* the top of likePost before any like was counted, not incremented in the
\* store.
LikeIncrementOverwrites(c) ==
  /\ InFlight(c, "likePost", "post.update")
  /\ LET postId == session[c].postId
     IN  IF Exists(postId)
         THEN /\ posts' = [posts EXCEPT ![postId].likesCount = 1]
              /\ Returns("likePost", FindUnique(posts', postId))
         ELSE /\ Throws("likePost", RecordNotFound)
              /\ UNCHANGED posts
  /\ Finish(c)
  /\ UNCHANGED <<nextId, likes, task, published, feedData, fetching,
               button, subscription, hook>>

\* prisma.post.update({likesCount: {increment: 1}}) settles; the promise is
\* returned, not awaited, so its rejection is the resolver's.
LikeIncrement(c) ==
  /\ InFlight(c, "likePost", "post.update")
  /\ LET postId == session[c].postId
     IN  IF Exists(postId)
         THEN /\ posts' = [posts EXCEPT ![postId].likesCount = @ + 1]
              /\ Returns("likePost", FindUnique(posts', postId))
         ELSE /\ Throws("likePost", RecordNotFound)
              /\ UNCHANGED posts
  /\ Finish(c)
  /\ UNCHANGED <<nextId, likes, task, published, feedData, fetching,
               button, subscription, hook>>

\* Mutation of LikeCatchFind: the catch block rethrows what it caught.
LikeCatchRethrows(c) ==
  /\ InFlight(c, "likePost", "catch.findUnique")
  /\ Throws("likePost", "Unique constraint failed")
  /\ Finish(c)
  /\ UNCHANGED <<posts, nextId, likes, task, published, feedData, fetching,
               button, subscription, hook>>

\* The catch block's prisma.post.findUnique settles.
LikeCatchFind(c) ==
  /\ InFlight(c, "likePost", "catch.findUnique")
  /\ Returns("likePost", FindUnique(posts, session[c].postId))
  /\ Finish(c)
  /\ UNCHANGED <<posts, nextId, likes, task, published, feedData, fetching,
               button, subscription, hook>>

\* ------------------------------------------------------------- unlikePost
\* Mutation.unlikePost up to its second store call: like.findUnique decides
\* between like.delete and the plain post.findUnique.
UnlikePostCall(c, userId, postId) ==
  /\ session[c] = Idle
  /\ UNCHANGED <<posts, nextId, likes, task, published, feedData, fetching,
               button, subscription, hook>>
  /\ IF userId = NoUser
     THEN Throws("unlikePost", "Authentication required") /\ UNCHANGED session
     ELSE /\ Silent
          /\ IF LikesOf(likes, userId, postId) # {}
             THEN LET like == CHOOSE l \in LikesOf(likes, userId, postId) : TRUE
                  IN  session' = [session EXCEPT ![c] =
                                    [op |-> "unlikePost", userId |-> userId,
                                     postId |-> postId, pc |-> "like.delete",
                                     likeId |-> like.id]]
             ELSE Start(c, "unlikePost", userId, postId, "findUnique")

\* prisma.like.delete({where: {id: like.id}}) settles; it rejects when that
\* record is gone.
UnlikeDelete(c) ==
  /\ InFlight(c, "unlikePost", "like.delete")
  /\ LET found == {l \in likes : l.id = session[c].likeId}
     IN  IF found # {}
         THEN /\ likes' = likes \ found
              /\ session' = [session EXCEPT ![c].pc = "post.update", ![c].likeId = 0]
              /\ Silent
         ELSE /\ Throws("unlikePost", RecordNotFound)
              /\ Finish(c)
              /\ UNCHANGED likes
  /\ UNCHANGED <<posts, nextId, task, published, feedData, fetching,
               button, subscription, hook>>

\* Mutation of UnlikeDecrement: the counter is not taken below zero.
UnlikeDecrementFloor(c) ==
  /\ InFlight(c, "unlikePost", "post.update")
  /\ LET postId == session[c].postId
     IN  IF Exists(postId)
         THEN /\ posts' = [posts EXCEPT ![postId].likesCount = IF @ > 0 THEN @ - 1 ELSE 0]
              /\ Returns("unlikePost", FindUnique(posts', postId))
         ELSE /\ Throws("unlikePost", RecordNotFound)
              /\ UNCHANGED posts
  /\ Finish(c)
  /\ UNCHANGED <<nextId, likes, task, published, feedData, fetching,
               button, subscription, hook>>

\* prisma.post.update({likesCount: {decrement: 1}}) settles.
UnlikeDecrement(c) ==
  /\ InFlight(c, "unlikePost", "post.update")
  /\ LET postId == session[c].postId
     IN  IF Exists(postId)
         THEN /\ posts' = [posts EXCEPT ![postId].likesCount = @ - 1]
              /\ Returns("unlikePost", FindUnique(posts', postId))
         ELSE /\ Throws("unlikePost", RecordNotFound)
              /\ UNCHANGED posts
  /\ Finish(c)
  /\ UNCHANGED <<nextId, likes, task, published, feedData, fetching,
               button, subscription, hook>>

\* The plain prisma.post.findUnique of a user who has no like settles.
UnlikeFind(c) ==
  /\ InFlight(c, "unlikePost", "findUnique")
  /\ Returns("unlikePost", FindUnique(posts, session[c].postId))
  /\ Finish(c)
  /\ UNCHANGED <<posts, nextId, likes, task, published, feedData, fetching,
               button, subscription, hook>>

\* ------------------------------------------------------------ Query.feed
\* The cursor argument when none is given.
NullCursor == [kind |-> "null", ms |-> 0]

\* Date.prototype.toISOString: the instant, to the millisecond, as a string.
toISOString(createdAt) == [kind |-> "iso", ms |-> createdAt]

\* new Date(cursor) of such a string: the instant it names.
NewDate(cursor) == cursor.ms

\* `cursor && ...`: null is falsy, a date string is not.
HasCursor(cursor) == cursor.kind # "null"

Min(a, b) == IF a < b THEN a ELSE b

\* where: {status: "completed", createdAt: {lt: new Date(cursor)}}
Where(ps, cursor) ==
  {id \in DOMAIN ps :
     /\ ps[id].status = "completed"
     /\ HasCursor(cursor) => ps[id].createdAt < NewDate(cursor)}

\* Post i comes before post id by createdAt descending; posts of one
\* millisecond come newest id first.
Before(ps, i, id) ==
  \/ ps[i].createdAt > ps[id].createdAt
  \/ /\ ps[i].createdAt = ps[id].createdAt
     /\ i > id

\* The id in the middle of ids.
Middle(ids) ==
  CHOOSE id \in ids : Cardinality({i \in ids : i < id}) = Cardinality(ids) \div 2

\* orderBy: {createdAt: "desc"}
RECURSIVE OrderBy(_, _)
OrderByAround(ps, ids, id) ==
  OrderBy(ps, {i \in ids \ {id} : Before(ps, i, id)})
  \o <<id>> \o
  OrderBy(ps, {i \in ids \ {id} : ~Before(ps, i, id)})

OrderBy(ps, ids) ==
  IF ids = {} THEN <<>> ELSE OrderByAround(ps, ids, Middle(ids))

\* A post as a page carries it.
PostNode(ps, id) == [id |-> id, createdAt |-> ps[id].createdAt]

\* prisma.post.findMany({where, orderBy, take: n}), n >= 0
findMany(ps, cursor, n) ==
  LET ordered == OrderBy(ps, Where(ps, cursor))
  IN  [i \in 1..Min(n, Len(ordered)) |-> PostNode(ps, ordered[i])]

\* Array.prototype.slice(0, -1)
DropLast(s) == SubSeq(s, 1, Len(s) - 1)

PostConnection(returnPosts, hasMore) ==
  [kind |-> "PostConnection",
   posts |-> returnPosts,
   hasMore |-> hasMore,
   nextCursor |-> IF Len(returnPosts) > 0
                  THEN toISOString(returnPosts[Len(returnPosts)].createdAt)
                  ELSE NullCursor]

\* Mutation of feed: the page is cut at limit, not at min(limit, 50).
feedUncapped(ps, cursor, limit) ==
  LET read == findMany(ps, cursor, limit + 1)
      hasMore == Len(read) > limit
  IN  PostConnection(IF hasMore THEN DropLast(read) ELSE read, hasMore)

\* Query.feed on the Post table ps.
feed(ps, cursor, limit) ==
  LET take == Min(limit, maxTake)
      read == findMany(ps, cursor, take + 1)
      hasMore == Len(read) > take
  IN  PostConnection(IF hasMore THEN DropLast(read) ELSE read, hasMore)

\* The feed query is answered.
FeedQuery(cursor, limit) ==
  /\ Returns("feed", feed(posts, cursor, limit))
  /\ UNCHANGED <<posts, nextId, likes, task, session, published, feedData, fetching,
               button, subscription, hook>>

\* ------------------------------------- Query.post, generationStatus, user
\* The usernames asked for: those of the users, each written as the user's
\* id, and one that no user has.
Usernames == Users \cup {"nobody"}

UserValue(userId) == [kind |-> "User", id |-> userId]

\* prisma.user.findUnique({where: {username}}): the user or null.
FindUniqueUser(username) ==
  IF username \in Users THEN UserValue(username) ELSE NullValue

\* Query.post
QueryPost(id) ==
  /\ Returns("post", FindUnique(posts, id))
  /\ UNCHANGED <<posts, nextId, likes, task, session, published, feedData, fetching,
               button, subscription, hook>>

\* Query.generationStatus
GenerationStatus(postId) ==
  /\ Returns("generationStatus", FindUnique(posts, postId))
  /\ UNCHANGED <<posts, nextId, likes, task, session, published, feedData, fetching,
               button, subscription, hook>>

\* Query.user
QueryUser(username) ==
  /\ Returns("user", FindUniqueUser(username))
  /\ UNCHANGED <<posts, nextId, likes, task, session, published, feedData, fetching,
               button, subscription, hook>>

\* The posts of the table ps whose userId is userId.
PostsOf(ps, userId) ==
  [id \in {i \in DOMAIN ps : ps[i].userId = userId} |-> ps[id]]

\* Query.userPosts: Query.feed on the posts of the user, once the user was
\* found.
UserPosts(username, cursor, limit) ==
  /\ LET user == FindUniqueUser(username)
     IN  IF user = NullValue
         THEN Throws("userPosts", "User not found")
         ELSE Returns("userPosts", feed(PostsOf(posts, user.id), cursor, limit))
  /\ UNCHANGED <<posts, nextId, likes, task, session, published, feedData, fetching,
               button, subscription, hook>>

\* ---------------------------------------------------------------- useFeed
\* A GET_FEED request: its variables, and the result once the server has
\* answered.
Request(cursor) == [cursor |-> cursor, limit |-> FeedLimit, result |-> NoData]

Remove(s, i) == SubSeq(s, 1, i - 1) \o SubSeq(s, i + 1, Len(s))

\* useQuery(GET_FEED, {variables: {limit}}) on mount.
LoadInitial ==
  /\ feedData = NoData
  /\ fetching = <<>>
  /\ fetching' = Append(fetching, Request(NullCursor))
  /\ Silent
  /\ UNCHANGED <<posts, nextId, likes, task, session, published, feedData,
               button, subscription, hook>>

\* Mutation of LoadMore: nothing is fetched while a request is outstanding.
LoadMoreUnlessFetching ==
  /\ feedData # NoData
  /\ feedData.hasMore
  /\ fetching = <<>>
  /\ Len(feedData.posts) <= MaxWindow
  /\ fetching' = Append(fetching, Request(feedData.nextCursor))
  /\ Silent
  /\ UNCHANGED <<posts, nextId, likes, task, session, published, feedData,
               button, subscription, hook>>

\* useFeed's loadMore: fetchMore with the cursor of the data at hand, unless
\* hasMore is false.
LoadMore ==
  /\ feedData # NoData
  /\ feedData.hasMore
  /\ Len(fetching) < MaxFetches
  /\ Len(feedData.posts) <= MaxWindow
  /\ fetching' = Append(fetching, Request(feedData.nextCursor))
  /\ Silent
  /\ UNCHANGED <<posts, nextId, likes, task, session, published, feedData,
               button, subscription, hook>>

\* The server runs Query.feed for an outstanding request.
ServeFeed(i) ==
  /\ i \in DOMAIN fetching
  /\ fetching[i].result = NoData
  /\ fetching' = [fetching EXCEPT
                    ![i].result = feed(posts, fetching[i].cursor, fetching[i].limit)]
  /\ Silent
  /\ UNCHANGED <<posts, nextId, likes, task, session, published, feedData,
               button, subscription, hook>>

\* Mutation of merge: incoming posts already in the cache are left out.
mergeDistinct(existing, incoming, cursor) ==
  IF ~HasCursor(cursor) THEN incoming
  ELSE LET held == IF existing = NoData THEN <<>> ELSE existing.posts
       IN  [incoming EXCEPT !.posts =
              held \o SelectSeq(incoming.posts,
                                LAMBDA node : \A k \in DOMAIN held : held[k].id # node.id)]

\* Mutation of merge: the incoming page takes the place of the window.
mergeReplaces(existing, incoming, cursor) == incoming

\* typePolicies.Query.fields.feed.merge
merge(existing, incoming, cursor) ==
  IF ~HasCursor(cursor) THEN incoming
  ELSE [incoming EXCEPT !.posts =
          (IF existing = NoData THEN <<>> ELSE existing.posts) \o incoming.posts]

\* The result of a request arrives and is written to the cache.
FetchSettles(i) ==
  /\ i \in DOMAIN fetching
  /\ fetching[i].result # NoData
  /\ feedData' = merge(feedData, fetching[i].result, fetching[i].cursor)
  /\ fetching' = Remove(fetching, i)
  /\ Silent
  /\ UNCHANGED <<posts, nextId, likes, task, session, published,
               button, subscription, hook>>

\* Mutation of updateQuery: the new post is put where its createdAt belongs.
updateQuerySorted(prev, newPost) ==
  IF \E k \in DOMAIN prev.posts : prev.posts[k].id = newPost.id THEN prev
  ELSE [prev EXCEPT !.posts =
          SelectSeq(prev.posts, LAMBDA node : node.createdAt > newPost.createdAt)
          \o <<newPost>> \o
          SelectSeq(prev.posts, LAMBDA node : node.createdAt <= newPost.createdAt)]

\* subscribeToMore's updateQuery, for prev.feed.
updateQuery(prev, newPost) ==
  IF \E k \in DOMAIN prev.posts : prev.posts[k].id = newPost.id THEN prev
  ELSE [prev EXCEPT !.posts = <<newPost>> \o prev.posts]

\* A postCreated event for the completed post id reaches the view.
PostCreatedArrives(id) ==
  /\ Exists(id)
  /\ posts[id].status = "completed"
  /\ feedData # NoData
  /\ feedData' = updateQuery(feedData, PostNode(posts, id))
  /\ Silent
  /\ UNCHANGED <<posts, nextId, likes, task, session, published, fetching,
               button, subscription, hook>>

\* ------------------------------------------------------- useFeed: one run
\* The window after useQuery(GET_FEED, {variables: {limit}}) was answered
\* from the Post table ps.
loadInitial(ps, limit) ==
  merge(NoData, feed(ps, NullCursor, limit), NullCursor)

\* useFeed's loadMore on the window data, run until the page it asked for
\* has been merged, with no other request and no store change in between:
\* the window it leaves, and the cursors of the requests it issued.
loadMore(ps, data, limit) ==
  IF ~data.hasMore THEN [data |-> data, requests |-> <<>>]
  ELSE [data |-> merge(data, feed(ps, data.nextCursor, limit), data.nextCursor),
        requests |-> <<data.nextCursor>>]

\* The window after loadInitial and then k loadMore calls, each started
\* after the one before it completed.
RECURSIVE Window(_, _, _)
Window(ps, limit, k) ==
  IF k = 0 THEN loadInitial(ps, limit)
  ELSE loadMore(ps, Window(ps, limit, k - 1), limit).data

\* ------------------------------------------- likePost, unlikePost: one run
\* The Post and Like tables as one value.
Store(ps, lk) == [posts |-> ps, likes |-> lk]

\* What a resolver run leaves: the tables, and the error thrown or the value
\* returned.
Outcome(ps, lk, error, value) ==
  [posts |-> ps, likes |-> lk, error |-> error, value |-> value]

\* Mutation.likePost run from its first line to its return on the store st
\* with no other call in between.
likePost(st, userId, postId) ==
  IF userId = NoUser
  THEN Outcome(st.posts, st.likes, "Authentication required", NullValue)
  ELSE IF postId \notin DOMAIN st.posts
  THEN Outcome(st.posts, st.likes, "Post not found", NullValue)
  ELSE IF LikesOf(st.likes, userId, postId) # {}
  THEN Outcome(st.posts, st.likes, Null, FindUnique(st.posts, postId))
  ELSE LET like == [id |-> FreshFrom(1, {l.id : l \in st.likes}),
                    userId |-> userId, postId |-> postId]
           ps == [st.posts EXCEPT ![postId].likesCount = @ + 1]
       IN  Outcome(ps, st.likes \cup {like}, Null, FindUnique(ps, postId))

\* Mutation of unlikePost: the like is deleted and the counter left alone.
unlikePostNoDecrement(st, userId, postId) ==
  IF userId = NoUser
  THEN Outcome(st.posts, st.likes, "Authentication required", NullValue)
  ELSE IF LikesOf(st.likes, userId, postId) # {}
  THEN Outcome(st.posts, st.likes \ LikesOf(st.likes, userId, postId), Null,
               FindUnique(st.posts, postId))
  ELSE Outcome(st.posts, st.likes, Null, FindUnique(st.posts, postId))

\* Mutation.unlikePost run from its first line to its return on the store
\* st with no other call in between.
unlikePost(st, userId, postId) ==
  IF userId = NoUser
  THEN Outcome(st.posts, st.likes, "Authentication required", NullValue)
  ELSE IF LikesOf(st.likes, userId, postId) # {}
  THEN LET like == CHOOSE l \in LikesOf(st.likes, userId, postId) : TRUE
           lk == {l \in st.likes : l.id # like.id}
       IN  IF postId \in DOMAIN st.posts
           THEN LET ps == [st.posts EXCEPT ![postId].likesCount = @ - 1]
                IN  Outcome(ps, lk, Null, FindUnique(ps, postId))
           ELSE Outcome(st.posts, lk, RecordNotFound, NullValue)
  ELSE Outcome(st.posts, st.likes, Null, FindUnique(st.posts, postId))

\* ------------------------------------------------------------- LikeButton
\* The signed-in user whose page shows the button, and the post it is on.
Viewer == "u1"
ButtonPost == 1

\* Post.isLikedByMe for the viewer on the Like table lk.
isLikedByMe(lk, userId, postId) ==
  IF userId = NoUser THEN FALSE ELSE LikesOf(lk, userId, postId) # {}

\* Every running handleClick call has seen the visible state set from a
\* mutation response or an event.
Supersede(calls) ==
  [h \in DOMAIN calls |->
     IF calls[h].pc = "" THEN calls[h] ELSE [calls[h] EXCEPT !.superseded = TRUE]]

\* The props likesCount and isLiked of the render, and the effect on
\* [likesCount, isLiked] that runs when either has changed.
SyncProps(b, likesCount, isLiked) ==
  IF likesCount = b.likesCount /\ isLiked = b.isLiked THEN b
  ELSE [b EXCEPT !.likesCount = likesCount, !.isLiked = isLiked,
                 !.displayCount = likesCount, !.optimisticLiked = isLiked]

\* handleClick up to its await: wasLiked and prevCount are taken from the
\* state of the render, the optimistic update is made, the mutation is sent.
handleClick(h) ==
  /\ button.calls[h] = NoCall
  /\ \A g \in 1..(h - 1) : button.calls[g] # NoCall
  /\ LET wasLiked == button.optimisticLiked
         prevCount == button.displayCount
     IN  button' = [button EXCEPT
           !.optimisticLiked = ~wasLiked,
           !.displayCount = IF wasLiked THEN prevCount - 1 ELSE prevCount + 1,
           !.calls[h] = [pc |-> "request", wasLiked |-> wasLiked,
                         prevCount |-> prevCount,
                         shown |-> <<button.optimisticLiked, button.displayCount>>,
                         superseded |-> FALSE, data |-> NullValue]]
  /\ Silent
  /\ UNCHANGED <<posts, nextId, likes, task, session, published, feedData, fetching,
                 subscription, hook>>

\* The mutation handleClick call h awaits, by name.
MutationOf(h) == IF button.calls[h].wasLiked THEN "unlikePost" ELSE "likePost"

\* The server runs the mutation of call h for the viewer, with Post.likesCount
\* and Post.isLikedByMe resolved for the answer.
MutationServed(h) ==
  /\ button.calls[h].pc = "request"
  /\ LET st == Store(posts, likes)
         out == IF button.calls[h].wasLiked
                THEN unlikePost(st, Viewer, ButtonPost)
                ELSE likePost(st, Viewer, ButtonPost)
     IN  /\ posts' = out.posts
         /\ likes' = out.likes
         /\ button' = [button EXCEPT !.calls[h].pc = "response",
               !.calls[h].data =
                  IF out.error # Null \/ out.value = NullValue
                  THEN [kind |-> "error", likesCount |-> 0, isLikedByMe |-> FALSE]
                  ELSE [kind |-> "Post", likesCount |-> out.value.likesCount,
                        isLikedByMe |-> isLikedByMe(out.likes, Viewer, ButtonPost)]]
  /\ Silent
  /\ UNCHANGED <<nextId, task, session, published, feedData, fetching,
                 subscription, hook>>

\* Mutation of Revert: the count goes back to the likesCount prop.
RevertToProp(b, call) ==
  [b EXCEPT !.optimisticLiked = call.wasLiked, !.displayCount = b.likesCount]

\* The catch block of handleClick.
Revert(b, call) ==
  [b EXCEPT !.optimisticLiked = call.wasLiked, !.displayCount = call.prevCount]

\* The awaited mutation of call h rejects, with a network error before or
\* after the server ran it or with the error the server answered, and the
\* catch block runs.
MutationRejects(h) ==
  /\ button.calls[h].pc \in {"request", "response"}
  /\ button' = [Revert(button, button.calls[h]) EXCEPT !.calls[h] = NoCall]
  /\ Throws(MutationOf(h), "Failed to fetch")
  /\ UNCHANGED <<posts, nextId, likes, task, session, published, feedData, fetching,
                 subscription, hook>>

\* The awaited mutation of call h resolves: its Post fields are written to
\* the cache, the button is rendered with them as props, handleClick ends.
MutationResolves(h) ==
  /\ button.calls[h].pc = "response"
  /\ button.calls[h].data.kind = "Post"
  /\ LET data == button.calls[h].data
         ended == [button EXCEPT !.calls[h] = NoCall]
         synced == SyncProps(ended, data.likesCount, data.isLikedByMe)
     IN  button' = IF synced = ended THEN ended
                   ELSE [synced EXCEPT !.calls = Supersede(@)]
  /\ Silent
  /\ UNCHANGED <<posts, nextId, likes, task, session, published, feedData, fetching,
                 subscription, hook>>

\* GET_FEED is fetched again and the button is rendered with the post's
\* fields as the store has them.
FeedRefetched ==
  /\ Exists(ButtonPost)
  /\ button' = SyncProps(button, posts[ButtonPost].likesCount,
                         isLikedByMe(likes, Viewer, ButtonPost))
  /\ button' # button
  /\ Silent
  /\ UNCHANGED <<posts, nextId, likes, task, session, published, feedData, fetching,
                 subscription, hook>>

\* Another user's likePost or unlikePost call on the button's post runs.
OtherUserToggles(userId) ==
  /\ userId # Viewer
  /\ LET st == Store(posts, likes)
         out == IF LikesOf(likes, userId, ButtonPost) # {}
                THEN unlikePost(st, userId, ButtonPost)
                ELSE likePost(st, userId, ButtonPost)
     IN  /\ posts' = out.posts
         /\ likes' = out.likes
  /\ Silent
  /\ UNCHANGED <<nextId, task, session, published, feedData, fetching,
                 button, subscription, hook>>

\* A postLikeUpdated event with the post's likesCount is sent to the
\* subscription. The payload is {postId, likesCount}; version is the event's
\* place in the order of sending, which the payload does not carry.
LikeUpdateSent(most) ==
  /\ Exists(ButtonPost)
  /\ subscription.next <= most
  /\ subscription' =
       [next |-> subscription.next + 1,
        inflight |-> subscription.inflight \cup
                       {[version |-> subscription.next, postId |-> ButtonPost,
                         likesCount |-> posts[ButtonPost].likesCount]}]
  /\ Silent
  /\ UNCHANGED <<posts, nextId, likes, task, session, published, feedData, fetching,
                 button, hook>>

Max(a, b) == IF a >= b THEN a ELSE b

\* useSubscription delivers event: the effect on subscriptionData sets
\* displayCount when the event is of the button's post.
LikeUpdateReceived(event) ==
  /\ event \in subscription.inflight
  /\ subscription' = [subscription EXCEPT !.inflight = @ \ {event}]
  /\ button' = IF event.postId = ButtonPost
               THEN [button EXCEPT !.displayCount = event.likesCount,
                                   !.observed = Max(@, event.version),
                                   !.calls = Supersede(@)]
               ELSE button
  /\ Silent
  /\ UNCHANGED <<posts, nextId, likes, task, session, published, feedData, fetching,
                 hook>>

\* ---------------------------------------------------------- useCreatePost
\* The post a createPost call of the hook is about, as the hook holds it.
GeneratingPost(j, status) == [kind |-> "Post", id |-> j, status |-> status]

\* What a GET_GENERATION_STATUS query of the poll loop comes back with: the
\* post's status, or "error" for a query that rejects or returns no post.
PollResults == {"GENERATING", "COMPLETED", "FAILED", "error"}

\* createPost of the hook up to its await. CreatePost.tsx disables the
\* form while isGenerating, so a call is made only when it is false.
createPost(j) ==
  /\ hook.jobs[j] = NoJob
  /\ \A i \in 1..(j - 1) : hook.jobs[i] # NoJob
  /\ ~hook.isGenerating
  /\ hook' = [hook EXCEPT !.isGenerating = TRUE,
                          !.jobs[j] = [pc |-> "mutation", timer |-> FALSE, query |-> FALSE]]
  /\ UNCHANGED <<posts, nextId, likes, task, session, published, response,
                 feedData, fetching, button, subscription>>

\* createPostMutation settles: with a post, and the poll interval and the
\* 120 s timer are started, or with an error or no data, and the outer catch
\* runs.
CreatePostMutationSettles(j, ok) ==
  /\ hook.jobs[j].pc = "mutation"
  /\ hook' = IF ok
             THEN [hook EXCEPT !.generatingPost = GeneratingPost(j, "GENERATING"),
                               !.jobs[j] = [pc |-> "polling", timer |-> TRUE, query |-> FALSE]]
             ELSE [hook EXCEPT !.isGenerating = FALSE,
                               !.generatingPost = NullValue,
                               !.jobs[j] = [pc |-> "thrown", timer |-> FALSE, query |-> FALSE]]
  /\ UNCHANGED <<posts, nextId, likes, task, session, published, response,
                 feedData, fetching, button, subscription>>

\* A tick of the poll interval of call j: the callback sends its
\* GET_GENERATION_STATUS query and awaits it.
StatusPollStarts(j) ==
  /\ hook.jobs[j].pc = "polling"
  /\ ~hook.jobs[j].query
  /\ hook' = [hook EXCEPT !.jobs[j].query = TRUE]
  /\ UNCHANGED <<posts, nextId, likes, task, session, published, response,
                 feedData, fetching, button, subscription>>

\* The query of a tick of call j settles with result and the rest of the
\* callback runs, whether or not the interval was cleared meanwhile.
StatusPolled(j, result) ==
  /\ hook.jobs[j].query
  /\ hook' = IF result = "GENERATING"
             THEN [hook EXCEPT !.generatingPost = GeneratingPost(j, result),
                               !.jobs[j].query = FALSE]
             ELSE [hook EXCEPT !.isGenerating = FALSE,
                               !.generatingPost = NullValue,
                               !.jobs[j].query = FALSE,
                               !.jobs[j].pc = IF @ = "polling" THEN "cleared" ELSE @]
  /\ UNCHANGED <<posts, nextId, likes, task, session, published, response,
                 feedData, fetching, button, subscription>>

\* The 120 s timer of call j fires, after the timers of the calls before
\* it: clearInterval(pollInterval), setIsGenerating(false).
CleanupTimeout(j) ==
  /\ hook.jobs[j].timer
  /\ \A i \in 1..(j - 1) : ~hook.jobs[i].timer
  /\ hook' = [hook EXCEPT !.isGenerating = FALSE,
                          !.jobs[j].pc = IF @ = "polling" THEN "cleared" ELSE @,
                          !.jobs[j].timer = FALSE]
  /\ UNCHANGED <<posts, nextId, likes, task, session, published, response,
                 feedData, fetching, button, subscription>>

\* ------------------------------------------------------------ the system
Callers == Users \cup {NoUser}

\* A step of the background task of post id.
TaskStep(id) ==
  \/ CreateGenerationSettles(id)
  \/ UpdateGenerationId(id)
  \/ PollSettles(id)
  \/ UpdateCompleted(id)
  \/ UpdateFailed(id)

Next ==
  \/ \E userId \in Callers, prompt \in Prompts : CreatePost(userId, prompt)
  \/ \E id \in PostIds : CreateGenerationSettles(id)
  \/ \E id \in PostIds : UpdateGenerationId(id)
  \/ \E id \in PostIds : PollSettles(id)
  \/ \E id \in PostIds : UpdateCompleted(id)
  \/ \E id \in PostIds : UpdateFailed(id)
  \/ \E c \in Clients, userId \in Callers, id \in PostIds : DeletePostCall(c, userId, id)
  \/ \E c \in Clients : DeletePostDelete(c)
  \/ \E c \in Clients, userId \in Callers, id \in PostIds : LikePostCall(c, userId, id)
  \/ \E c \in Clients : LikeCreate(c)
  \/ \E c \in Clients : LikeIncrement(c)
  \/ \E c \in Clients : LikeCatchFind(c)
  \/ \E c \in Clients, userId \in Callers, id \in PostIds : UnlikePostCall(c, userId, id)
  \/ \E c \in Clients : UnlikeDelete(c)
  \/ \E c \in Clients : UnlikeDecrement(c)
  \/ \E c \in Clients : UnlikeFind(c)

Spec == Init /\ [][Next]_vars

\* The generation life cycle alone: createPost, the background tasks and
\* deletePost, with no like traffic.
JobNext ==
  \/ \E userId \in Callers, prompt \in Prompts : CreatePost(userId, prompt)
  \/ \E id \in PostIds : CreateGenerationSettles(id)
  \/ \E id \in PostIds : UpdateGenerationId(id)
  \/ \E id \in PostIds : PollSettles(id)
  \/ \E id \in PostIds : UpdateCompleted(id)
  \/ \E id \in PostIds : UpdateFailed(id)
  \/ \E c \in Clients, userId \in Callers, id \in PostIds : DeletePostCall(c, userId, id)
  \/ \E c \in Clients : DeletePostDelete(c)

JobSpec == Init /\ [][JobNext]_vars

\* The generation life cycle with the read queries.
ReadNext ==
  \/ \E userId \in Callers, prompt \in Prompts : CreatePost(userId, prompt)
  \/ \E id \in PostIds : CreateGenerationSettles(id)
  \/ \E id \in PostIds : UpdateGenerationId(id)
  \/ \E id \in PostIds : PollSettles(id)
  \/ \E id \in PostIds : UpdateCompleted(id)
  \/ \E id \in PostIds : UpdateFailed(id)
  \/ \E c \in Clients, userId \in Callers, id \in PostIds : DeletePostCall(c, userId, id)
  \/ \E c \in Clients : DeletePostDelete(c)
  \/ \E id \in PostIds : QueryPost(id)
  \/ \E postId \in PostIds : GenerationStatus(postId)
  \/ \E username \in Usernames : QueryUser(username)
  \/ \E username \in Usernames, cursor \in {NullCursor, toISOString(1)} :
       UserPosts(username, cursor, FeedLimit)

ReadSpec == Init /\ [][ReadNext]_vars

\* The store with one post per status in statuses, in creation order.
StoreOf(statuses) ==
  [id \in DOMAIN statuses |->
     [userId |-> "u1",
      imageUrl |-> IF statuses[id] = "completed" THEN "url" ELSE "",
      status |-> statuses[id],
      leonardoGenerationId |-> GenerationId,
      likesCount |-> 0,
      createdAt |-> id]]

\* The task of a post in such a store: over unless the post is generating,
\* and then its image url is polled and about to be stored.
TaskOf(status) ==
  IF status = "generating"
  THEN [NewTask EXCEPT !.pc = "updateCompleted", !.imageUrl = "url"]
  ELSE IF status = "completed"
  THEN [NewTask EXCEPT !.pc = "done", !.imageUrl = "url"]
  ELSE [NewTask EXCEPT !.pc = "done", !.cause = "failed"]

\* A completed post nobody has liked yet, and no call in flight on any
\* connection.
LikeInit ==
  /\ posts = StoreOf(<<"completed">>)
  /\ nextId = 2
  /\ likes = {}
  /\ task = [id \in {1} |-> TaskOf("completed")]
  /\ session = [c \in Connections |-> Idle]
  /\ published = <<>>
  /\ response = NoResponse
  /\ feedData = NoData
  /\ fetching = <<>>
  /\ button = LikeButton(0, FALSE)
  /\ subscription = NoEvents
  /\ hook = useCreatePost

\* likePost and unlikePost calls of any users on the connections, their
\* store calls interleaved.
LikeNext ==
  \/ \E c \in Connections, userId \in Callers, id \in PostIds : LikePostCall(c, userId, id)
  \/ \E c \in Connections : LikeCreate(c)
  \/ \E c \in Connections : LikeIncrement(c)
  \/ \E c \in Connections : LikeCatchFind(c)
  \/ \E c \in Connections, userId \in Callers, id \in PostIds : UnlikePostCall(c, userId, id)
  \/ \E c \in Connections : UnlikeDelete(c)
  \/ \E c \in Connections : UnlikeDecrement(c)
  \/ \E c \in Connections : UnlikeFind(c)

LikeSpec == LikeInit /\ [][LikeNext]_vars

\* One LikeButton of a signed-in viewer on a completed post, other users'
\* likes, and the events sent to the button.
ButtonNext ==
  \/ \E h \in 1..MaxPending : handleClick(h)
  \/ \E h \in 1..MaxPending : MutationServed(h)
  \/ \E h \in 1..MaxPending : MutationRejects(h)
  \/ \E h \in 1..MaxPending : MutationResolves(h)
  \/ FeedRefetched
  \/ \E userId \in Users : OtherUserToggles(userId)
  \/ LikeUpdateSent(MaxButtonEvents)
  \/ \E event \in subscription.inflight : LikeUpdateReceived(event)

ButtonSpec == LikeInit /\ [][ButtonNext]_vars

\* The LikeButton left alone: other users' likes, refetches, and the events
\* sent to the button.
EventNext ==
  \/ FeedRefetched
  \/ \E userId \in Users : OtherUserToggles(userId)
  \/ LikeUpdateSent(MaxEvents)
  \/ \E event \in subscription.inflight : LikeUpdateReceived(event)

EventSpec == LikeInit /\ [][EventNext]_vars

\* One useCreatePost instance behind the CreatePost form.
HookNext ==
  \/ \E j \in 1..MaxJobs : createPost(j)
  \/ \E j \in 1..MaxJobs, ok \in BOOLEAN : CreatePostMutationSettles(j, ok)
  \/ \E j \in 1..MaxJobs : StatusPollStarts(j)
  \/ \E j \in 1..MaxJobs, result \in PollResults : StatusPolled(j, result)
  \/ \E j \in 1..MaxJobs : CleanupTimeout(j)

HookSpec == Init /\ [][HookNext]_vars

\* Store contents the feed is asked about: empty, a few posts of every
\* status, and completed posts around the cap of 50.
Stores ==
  { <<>>,
    <<"completed">>,
    <<"generating", "completed">>,
    <<"completed", "failed", "completed">>,
    <<"completed", "completed", "completed">>,
    <<"completed", "completed", "completed", "completed">>,
    <<"completed", "completed", "generating", "completed", "completed">>,
    Rep("completed", 50),
    Rep("completed", 51),
    <<"failed">> \o Rep("completed", 51),
    Rep("completed", 53),
    Rep("completed", 101) }

\* Stores of completed posts some of which were created in the same
\* millisecond, given by the createdAt of each post in creation order.
TiedStores ==
  { <<1, 1>>,
    <<1, 2, 2>>,
    <<1, 2, 2, 3>>,
    <<1, 1, 2, 2, 3>> }

\* The store of completed posts with these createdAt.
StoreAt(times) ==
  [id \in DOMAIN times |->
     [StoreOf([i \in DOMAIN times |-> "completed"])[id] EXCEPT !.createdAt = times[id]]]

StoreContents ==
  {StoreOf(statuses) : statuses \in Stores} \cup {StoreAt(times) : times \in TiedStores}

Limits == {0, 1, 2, 3, 49, 50, 51, 52, 60}

\* No cursor, or the createdAt of a post as the previous page gave it.
Cursors == {NullCursor} \cup {toISOString(t) : t \in {1, 2, 3, 4, 52, 53, 54}}

PageInit ==
  /\ \E store \in StoreContents :
       /\ posts = store
       /\ nextId = Len(store) + 1
       /\ task = [id \in DOMAIN store |-> TaskOf(store[id].status)]
  /\ likes = {}
  /\ session = [c \in Clients |-> Idle]
  /\ published = <<>>
  /\ response = NoResponse
  /\ feedData = NoData
  /\ fetching = <<>>
  /\ button = LikeButton(0, FALSE)
  /\ subscription = NoEvents
  /\ hook = useCreatePost

PageNext == \E cursor \in Cursors, limit \in Limits : FeedQuery(cursor, limit)

\* Query.feed applied to the stores, cursors and limits above.
PageSpec == PageInit /\ [][PageNext]_vars

FeedPostIds == 1..MaxFeedPosts

\* A store of posts whose images are all polled and about to be stored, and
\* a feed view that has just been mounted.
FeedInit ==
  /\ posts = StoreOf([id \in FeedPostIds |-> "generating"])
  /\ nextId = MaxFeedPosts + 1
  /\ task = [id \in FeedPostIds |-> TaskOf("generating")]
  /\ likes = {}
  /\ session = [c \in Clients |-> Idle]
  /\ published = <<>>
  /\ response = NoResponse
  /\ feedData = NoData
  /\ fetching = <<>>
  /\ button = LikeButton(0, FALSE)
  /\ subscription = NoEvents
  /\ hook = useCreatePost

\* One feed view, with the posts completing in the store in any order.
FeedNext ==
  \/ \E id \in FeedPostIds : UpdateCompleted(id)
  \/ LoadInitial
  \/ LoadMore
  \/ \E i \in 1..MaxFetches : ServeFeed(i)
  \/ \E i \in 1..MaxFetches : FetchSettles(i)
  \/ \E id \in FeedPostIds : PostCreatedArrives(id)

FeedSpec == FeedInit /\ [][FeedNext]_vars

\* Every store and provider call of a background task settles.
FairSpec == Spec /\ \A id \in PostIds : WF_vars(TaskStep(id))

\* ------------------------------------------------------------------ claims
Terminal == {"completed", "failed"}

\* QUEUED < GENERATING < {COMPLETED, FAILED}
Rank(status) ==
  CASE status = "queued" -> 0
    [] status = "generating" -> 1
    [] status \in Terminal -> 2

\* C1: the stored status of a post only moves forward along
\* QUEUED -> GENERATING -> {COMPLETED, FAILED}, whatever step is taken, and
\* once it is COMPLETED or FAILED its status and imageUrl never change.
C1_StatusForward ==
  [][\A id \in DOMAIN posts \cap DOMAIN posts' :
       /\ Rank(posts'[id].status) >= Rank(posts[id].status)
       /\ posts[id].status \in Terminal =>
            /\ posts'[id].status = posts[id].status
            /\ posts'[id].imageUrl = posts[id].imageUrl]_vars

\* A like has just been counted on a post that is already completed.
C1_Witness ==
  /\ response.op = "likePost"
  /\ response.value.kind = "Post"
  /\ response.value.status = "completed"
  /\ response.value.likesCount = 1

TerminalEvents(id) ==
  {i \in DOMAIN published :
     published[i].postId = id /\ published[i].topic \in {"POST_CREATED", "JOB_FAILED"}}

\* C2: a post that reached a terminal status has exactly one terminal event
\* on the bus, POST_CREATED if it is completed and JOB_FAILED if it failed.
C2_OneTerminalEvent ==
  \A id \in DOMAIN posts :
    posts[id].status \in Terminal =>
      /\ Cardinality(TerminalEvents(id)) = 1
      /\ \A i \in TerminalEvents(id) :
           published[i].topic =
             (IF posts[id].status = "completed" THEN "POST_CREATED" ELSE "JOB_FAILED")

\* The background task of post id ends in this step.
TaskEnds(id) ==
  /\ id \in DOMAIN task
  /\ task[id].pc \notin {"done", "unhandledRejection"}
  /\ task'[id].pc \in {"done", "unhandledRejection"}

\* C3: when every poll of a job was answered pending, the job is FAILED once
\* the attempt budget is used up: the task that ran out of attempts ends
\* with the record stored as failed.
C3_TimeoutFails ==
  [][\A id \in DOMAIN task :
       (TaskEnds(id) /\ task[id].cause = "timeout") =>
         /\ id \in DOMAIN posts'
         /\ posts'[id].status = "failed"
         /\ task'[id].pc = "done"]_vars

\* C4: every post createPost made eventually is COMPLETED or FAILED.
C4_EventuallyTerminal ==
  \A id \in PostIds :
    (id \in DOMAIN task) ~> (id \in DOMAIN posts /\ posts[id].status \in Terminal)

C6_ImageIffCompleted ==
  \A id \in DOMAIN posts :
    Truthy(posts[id].imageUrl) <=> posts[id].status = "completed"

\* A post is completed with the image url its task polled.
C6_Witness ==
  \E id \in DOMAIN posts :
    /\ posts[id].status = "completed"
    /\ posts[id].imageUrl = "url"
    /\ task[id].pc = "done"

\* The submitted prompts whose trimmed length is below 3 or above 1000.
OutOfBounds == {prompt \in Prompts : Len(trim(prompt)) < 3 \/ Len(trim(prompt)) > 1000}

\* C7: a step that answers a createPost call whose prompt has a trimmed
\* length below 3 or above 1000 throws (the validation message, for an
\* authenticated caller) and changes no record, starts no task and
\* publishes nothing.
C7_InvalidPromptRejected ==
  [][\A userId \in Callers, prompt \in OutOfBounds :
       (response'.op = "createPost" /\ CreatePost(userId, prompt)) =>
         /\ response'.error # Null
         /\ userId # NoUser => response'.error = PromptMessage
         /\ UNCHANGED <<posts, nextId, likes, task, session, published, feedData, fetching>>]_vars

\* createPost has just thrown the validation message while a post exists.
C7_Witness ==
  /\ response.op = "createPost"
  /\ response.error = PromptMessage
  /\ DOMAIN posts # {}

\* C8: no error leaves a background task unhandled.
C8_NoUnhandledRejection ==
  \A id \in DOMAIN task : task[id].pc # "unhandledRejection"

\* C9: while a post is GENERATING only its own background task changes or
\* removes its record.
C9_ActiveRecordUntouched ==
  [][\A id \in DOMAIN posts :
       posts[id].status = "generating" =>
         \/ TaskStep(id)
         \/ id \in DOMAIN posts' /\ posts'[id] = posts[id]]_vars

\* C10: when createGeneration or a poll fails or reports failure, the job
\* is stored as FAILED by the task's next store call, and the task makes no
\* further provider call.
C10_ProviderFailureFails ==
  [][\A id \in DOMAIN task :
       /\ (TaskEnds(id) /\ task[id].cause \in {"generate", "poll", "failed"}) =>
            /\ id \in DOMAIN posts'
            /\ posts'[id].status = "failed"
       /\ task[id].pc \in {"catch", "done", "unhandledRejection"} =>
            task'[id].pc \notin {"createGeneration", "poll"}]_vars

\* ------------------------------------------------------------------- likes
\* C11: at most one like record exists for each (userId, postId) pair,
\* whatever likePost and unlikePost calls interleave.
C11_OneEdgePerPair ==
  \A l1 \in likes, l2 \in likes :
    (l1.userId = l2.userId /\ l1.postId = l2.postId) => l1 = l2

\* An unlikePost call still holds the like it found while that like was
\* deleted and the pair's like created again as a new record.
C11_Witness ==
  \E c \in DOMAIN session :
    /\ InFlight(c, "unlikePost", "like.delete")
    /\ \E l \in LikesOf(likes, session[c].userId, session[c].postId) :
         l.id # session[c].likeId

Liked(st, userId, postId) == LikesOf(st.likes, userId, postId) # {}

LikesCount(st, postId) == st.posts[postId].likesCount

\* C12: from any reachable store, for every user and post, like then unlike
\* by a user who has no like, and unlike then like by a user who has one,
\* give back the liked flag and the count the store had; the first call
\* changes the count by one and the second changes it back by one.
C12_ToggleTwiceRestores ==
  \A userId \in Users, postId \in DOMAIN posts :
    LET st == Store(posts, likes)
        first == IF Liked(st, userId, postId)
                 THEN unlikePost(st, userId, postId)
                 ELSE likePost(st, userId, postId)
        second == IF Liked(first, userId, postId)
                  THEN unlikePost(first, userId, postId)
                  ELSE likePost(first, userId, postId)
        step == IF Liked(st, userId, postId) THEN -1 ELSE 1
    IN  /\ first.error = Null /\ second.error = Null
        /\ Liked(first, userId, postId) # Liked(st, userId, postId)
        /\ LikesCount(first, postId) = LikesCount(st, postId) + step
        /\ first.value.likesCount = LikesCount(first, postId)
        /\ Liked(second, userId, postId) = Liked(st, userId, postId)
        /\ LikesCount(second, postId) = LikesCount(first, postId) - step
        /\ LikesCount(second, postId) = LikesCount(st, postId)
        /\ second.value.likesCount = LikesCount(second, postId)

\* The store holds a post one user likes and the other does not, so both
\* orders of the two calls are exercised.
C12_Witness ==
  \E postId \in DOMAIN posts :
    /\ Liked(Store(posts, likes), "u1", postId)
    /\ ~Liked(Store(posts, likes), "u2", postId)
    /\ posts[postId].likesCount = 1
    /\ \A c \in DOMAIN session : session[c] = Idle

LikesOn(id) == {l \in likes : l.postId = id}

\* C13: when the likePost calls of distinct users run concurrently on a post
\* that starts with no likes, then once every call has returned the post's
\* likesCount is the number of users who like it, whatever the interleaving
\* of the store calls.
C13_ConcurrentLikesCounted ==
  (\A c \in DOMAIN session : session[c] = Idle) =>
    \A id \in DOMAIN posts : posts[id].likesCount = Cardinality(LikesOn(id))

\* The likePost calls of two users have both created their like and neither
\* has incremented the counter yet.
C13_Witness ==
  /\ InFlight("c1", "likePost", "post.update")
  /\ InFlight("c2", "likePost", "post.update")
  /\ session["c1"].userId # session["c2"].userId
  /\ session["c1"].postId = session["c2"].postId

\* C14: likesCount is never negative, in any state between the store calls
\* of concurrent likePost and unlikePost calls.
C14_NonNegative ==
  \A id \in DOMAIN posts : posts[id].likesCount >= 0

\* The likePost call on connection c was made by a user who already likes
\* the post: its like.create is about to be rejected, or was.
DuplicateLike(c) ==
  /\ session[c].op = "likePost"
  /\ \/ session[c].pc = "catch.findUnique"
     \/ /\ session[c].pc = "like.create"
        /\ LikesOf(likes, session[c].userId, session[c].postId) # {}

C16_CounterChangePublishes ==
  [][\A id \in DOMAIN posts \cap DOMAIN posts' :
       posts'[id].likesCount # posts[id].likesCount =>
         /\ Len(published') = Len(published) + 1
         /\ published'[Len(published')].topic = "POST_LIKE_UPDATED"
         /\ published'[Len(published')].postId = id]_vars

\* -------------------------------------------------------------------- feed
\* The page is what a page of at most n records of the store must be for
\* the cursor: the n newest completed posts older than the cursor, newest
\* first; hasMore exactly when an (n+1)-th such post was there to be read;
\* nextCursor the createdAt of the last post of the page, null if empty.
PageOf(page, cursor, n) ==
  LET matching == Where(posts, cursor)
      ids == {page.posts[k].id : k \in DOMAIN page.posts}
  IN  /\ Len(page.posts) <= n
      /\ Len(page.posts) = Min(n, Cardinality(matching))
      /\ ids \subseteq matching
      /\ \A k \in DOMAIN page.posts :
           page.posts[k].createdAt = posts[page.posts[k].id].createdAt
      /\ Cardinality(ids) = Len(page.posts)
      /\ \A k \in 1..(Len(page.posts) - 1) :
           page.posts[k].createdAt >= page.posts[k + 1].createdAt
      /\ \A id \in matching \ ids, k \in DOMAIN page.posts :
           posts[id].createdAt <= page.posts[k].createdAt
      /\ page.hasMore <=> Cardinality(matching) >= n + 1
      /\ page.nextCursor =
           (IF page.posts = <<>> THEN NullCursor
            ELSE toISOString(page.posts[Len(page.posts)].createdAt))

\* C17 as stated: for every store, cursor and limit the page is cut at
\* limit: limit+1 records are read, hasMore is true exactly when there were
\* that many, and the page holds the first limit of them.
C17_PageOfLimit ==
  \A cursor \in Cursors, limit \in Limits :
    PageOf(feed(posts, cursor, limit), cursor, limit)

\* C17, amended: for every store, cursor and limit >= 0 the page is cut at
\* take = min(limit, 50): take+1 records are read, hasMore is true exactly
\* when there were that many, the page holds the first take of them, and
\* nextCursor is derived from the last record returned.
C17_PageOfTake ==
  \A cursor \in Cursors, limit \in Limits :
    PageOf(feed(posts, cursor, limit), cursor, Min(limit, maxTake))

\* A feed query was answered with a full page of 50 and hasMore.
C17_Witness ==
  /\ response.op = "feed"
  /\ response.value.kind = "PostConnection"
  /\ response.value.hasMore
  /\ Len(response.value.posts) = maxTake
  /\ response.value.nextCursor = toISOString(response.value.posts[maxTake].createdAt)

\* C18: no post id appears twice in the window.
C18_NoDuplicateIds ==
  feedData # NoData =>
    \A i \in DOMAIN feedData.posts, j \in DOMAIN feedData.posts :
      feedData.posts[i].id = feedData.posts[j].id => i = j

\* C19: the window is in descending createdAt order.
C19_SortedDescending ==
  feedData # NoData =>
    \A k \in 1..(Len(feedData.posts) - 1) :
      feedData.posts[k].createdAt >= feedData.posts[k + 1].createdAt

\* C20: a loadMore call made while a request is outstanding issues no
\* request, and a page that arrives is the one after the window's last
\* page, so that no page is appended twice.
C20_LoadMoreCoalesced ==
  [][/\ (feedData # NoData /\ Len(fetching') > Len(fetching)) => fetching = <<>>
     /\ (feedData # NoData /\ feedData' # feedData /\ Len(fetching') < Len(fetching)) =>
          \E i \in DOMAIN fetching :
            /\ fetching' = Remove(fetching, i)
            /\ HasCursor(fetching[i].cursor) => fetching[i].cursor = feedData.nextCursor]_vars

\* hasMore is true in the window before each of the k loadMore calls and
\* after the last of them.
HasMoreThroughout(limit, k) ==
  \A j \in 0..k : Window(posts, limit, j).hasMore

\* C21 as stated: after k sequential loadMore calls with page size limit and
\* hasMore true throughout, the window is limit*k longer than it was, and
\* loadMore on a window with hasMore false issues no request and leaves the
\* window as it is.
C21_LengthByLimit ==
  \A limit \in Limits, k \in 0..MaxLoads :
    LET data == Window(posts, limit, k)
    IN  /\ (k > 0 /\ HasMoreThroughout(limit, k)) =>
             Len(data.posts) = Len(Window(posts, limit, 0).posts) + k * limit
        /\ ~data.hasMore =>
             loadMore(posts, data, limit) = [data |-> data, requests |-> <<>>]

\* C21, amended: after k sequential loadMore calls with limit >= 0 and
\* hasMore true throughout, the window is k * min(limit, 50) longer than it
\* was, and loadMore on a window with hasMore false issues no request and
\* leaves the window as it is.
C21_LengthByTake ==
  \A limit \in Limits, k \in 0..MaxLoads :
    LET data == Window(posts, limit, k)
    IN  /\ (k > 0 /\ HasMoreThroughout(limit, k)) =>
             Len(data.posts) =
               Len(Window(posts, limit, 0).posts) + k * Min(limit, maxTake)
        /\ ~data.hasMore =>
             loadMore(posts, data, limit) = [data |-> data, requests |-> <<>>]

\* The second page of a traversal with a limit above 50 was answered: the
\* window holds two pages of 50 with hasMore true, and after one more
\* loadMore hasMore is false.
C21_Witness ==
  \E limit \in Limits :
    /\ limit > maxTake
    /\ HasMoreThroughout(limit, 1)
    /\ response.op = "feed"
    /\ response.value = feed(posts, Window(posts, limit, 0).nextCursor, limit)
    /\ Len(Window(posts, limit, 1).posts) = 2 * maxTake
    /\ ~Window(posts, limit, 2).hasMore

\* The completed posts of the store.
Completed == {id \in DOMAIN posts : posts[id].status = "completed"}

\* C28: a traversal from the first page along nextCursor that has come to
\* hasMore false, on a store that did not change, has returned every
\* completed post exactly once and nothing else, also when posts of one
\* createdAt lie at a page boundary.
C28_TraversalComplete ==
  \A limit \in Limits \ {0}, k \in 0..MaxLoads :
    LET data == Window(posts, limit, k)
    IN  ~data.hasMore =>
          /\ \A i \in DOMAIN data.posts : data.posts[i].id \in Completed
          /\ \A id \in Completed :
               Cardinality({i \in DOMAIN data.posts : data.posts[i].id = id}) = 1

\* C26: a read of a job, a post or a user that does not exist, and a read
\* of the posts of a user that does not exist, returns null or an empty
\* page with no error raised.
C26_AbsentNotRaised ==
  [][/\ \A id \in PostIds :
          (~Exists(id) /\ (QueryPost(id) \/ GenerationStatus(id))) =>
            /\ response'.error = Null
            /\ response'.value = NullValue
     /\ \A username \in Usernames \ Users :
          /\ QueryUser(username) =>
               /\ response'.error = Null
               /\ response'.value = NullValue
          /\ \A cursor \in {NullCursor, toISOString(1)} :
               UserPosts(username, cursor, FeedLimit) => response'.error = Null]_vars

\* The calls of op on post id whose like record is written and whose
\* counter update is still to come.
Uncounted(op, id) ==
  {c \in DOMAIN session : InFlight(c, op, "post.update") /\ session[c].postId = id}

\* C27: the likesCount of every existing post is the number of its like
\* edges, less the likes created and plus the likes deleted by calls that
\* have not updated the counter yet; so whenever no likePost or unlikePost
\* call is in progress it is the number of like edges, after any
\* interleaving of calls, those of one user and duplicate likes included.
C27_CountIsEdges ==
  \A id \in DOMAIN posts :
    posts[id].likesCount =
      Cardinality(LikesOn(id)) - Cardinality(Uncounted("likePost", id))
                               + Cardinality(Uncounted("unlikePost", id))

\* No call is in progress, the last one to return was an unlikePost that
\* took the counter from 2 to 1, and one like edge is left.
C27_Witness ==
  /\ \A c \in DOMAIN session : session[c] = Idle
  /\ response.op = "unlikePost"
  /\ response.error = Null
  /\ response.value.kind = "Post"
  /\ response.value.likesCount = 1
  /\ \E id \in DOMAIN posts : Cardinality(LikesOn(id)) = 1

\* C30: a post is removed only by the deletePost call of an authenticated
\* caller who is the post's owner, and a deletePost call that fails with an
\* error leaves every post record and every like edge as it was.
C30_DeleteByOwnerOnly ==
  [][/\ \A id \in DOMAIN posts \ DOMAIN posts' :
          \E c \in DOMAIN session :
            /\ InFlight(c, "deletePost", "post.delete")
            /\ session'[c] = Idle
            /\ session[c].postId = id
            /\ session[c].userId # NoUser
            /\ session[c].userId = posts[id].userId
            /\ response' = [op |-> "deletePost", error |-> Null,
                            value |-> BooleanValue(TRUE)]
     /\ (response'.op = "deletePost" /\ response'.error # Null) =>
          /\ posts' = posts
          /\ likes' = likes]_vars

\* A deletePost call returned true and the post it named is gone.
C30_Witness ==
  /\ response = [op |-> "deletePost", error |-> Null, value |-> BooleanValue(TRUE)]
  /\ nextId > 1
  /\ posts = <<>>

\* What the button shows: the liked flag and the count.
Visible(b) == <<b.optimisticLiked, b.displayCount>>

\* C22: when the mutation of a handleClick call fails after its optimistic
\* update, the liked flag and the count shown go back to what was shown
\* immediately before that optimistic update, whatever clicks, prop updates
\* and events came before the click.
C22_FailureRestores ==
  [][\A h \in 1..MaxPending :
       MutationRejects(h) => Visible(button') = button.calls[h].shown]_vars

\* A like mutation has just failed while no other click was under way, and
\* the button is back at a count that is not the likesCount prop: the count
\* an event had set before the click.
C22_Witness ==
  /\ response.op = "likePost"
  /\ response.error # Null
  /\ \A h \in 1..MaxPending : button.calls[h] = NoCall
  /\ ~button.optimisticLiked
  /\ button.displayCount # button.likesCount

\* C23: an event received by the button changes the count shown only if no
\* event sent after it was received before it; an event that arrives late
\* never replaces the count of a newer one.
C23_StaleEventIgnored ==
  [][\A event \in subscription.inflight :
       (LikeUpdateReceived(event) /\ event.version < button.observed) =>
         button'.displayCount = button.displayCount]_vars

\* C24: once a count from the server, in a mutation response or an event,
\* has been shown while a handleClick call was awaiting its mutation, the
\* failure of that mutation does not replace the count shown.
C24_RollbackKeepsAuthoritative ==
  [][\A h \in 1..MaxPending :
       (MutationRejects(h) /\ button.calls[h].superseded) =>
         button'.displayCount = button.displayCount]_vars

\* C25: once every mutation has returned and every event sent has been
\* received, the count the button shows is the likesCount of the post in the
\* store.
C25_DisplayConverges ==
  (/\ \A h \in 1..MaxPending : button.calls[h] = NoCall
   /\ subscription.inflight = {}
   /\ Exists(ButtonPost)) =>
    button.displayCount = posts[ButtonPost].likesCount

\* C29: while the poll loop of a createPost call is running, isGenerating
\* is true; no timer of an earlier call sets it false while a later job is
\* polled.
C29_GeneratingWhilePolling ==
  (\E j \in 1..MaxJobs : hook.jobs[j].pc = "polling") => hook.isGenerating

====
